---- MODULE Spec2Model ----
(***************************************************************************)
(* cloud-init-to-bash.py: a line-cursor parser for a subset of cloud-init  *)
(* YAML (parse_cloud_init), a shell-script generator (generate_bash) and   *)
(* the command-line entry point that runs one after the other.             *)
(*                                                                         *)
(* Strings are TLA+ strings; a line list is a sequence of strings.  The    *)
(* line cursor i is 0-based as in the source, so the line under the cursor *)
(* is lines[i + 1].                                                        *)
(***************************************************************************)
EXTENDS Integers, Sequences, FiniteSets, TLC

VARIABLES pc, argv, user, lines, i, sections, entry, content_lines,
          content_indent, who, out, stdout, stderr, exitCode

vars == <<pc, argv, user, lines, i, sections, entry, content_lines,
          content_indent, who, out, stdout, stderr, exitCode>>

(***************************************************************************)
(* Bounds of the model.                                                    *)
(***************************************************************************)
\* An input file is a concatenation of at most MaxFrags fragments.
MaxFrags == 3

(***************************************************************************)
(* Python string primitives.                                               *)
(***************************************************************************)
\* str.isspace() on one character: U+0009..U+000D, U+001C..U+001F, U+0020,
\* U+0085, U+00A0 and U+1680.  (U+2000..U+200A, U+2028, U+2029, U+202F, U+205F
\* and U+3000 are whitespace as well; a string of this module cannot hold them.)
IsSpace(c) ==
    c \in {" ", "\t", "\n", "\r", "\f", "", "", "", "", "",
           "", " ", " "}

\* s[n:]
Drop(s, n) == IF n >= Len(s) THEN "" ELSE SubSeq(s, n + 1, Len(s))

\* s.startswith(p)
StartsWith(s, p) == Len(s) >= Len(p) /\ SubSeq(s, 1, Len(p)) = p

\* s.endswith(p)
EndsWith(s, p) == Len(s) >= Len(p) /\ SubSeq(s, Len(s) - Len(p) + 1, Len(s)) = p

\* s.lstrip()
RECURSIVE LStrip(_)
LStrip(s) ==
    IF s = "" THEN ""
    ELSE IF IsSpace(Head(s)) THEN LStrip(Tail(s)) ELSE s

\* s.rstrip()
RECURSIVE RStrip(_)
RStrip(s) ==
    IF s = "" THEN ""
    ELSE IF IsSpace(SubSeq(s, Len(s), Len(s)))
         THEN RStrip(SubSeq(s, 1, Len(s) - 1)) ELSE s

\* s.strip()
Strip(s) == RStrip(LStrip(s))

\* s.strip('"')
RECURSIVE StripQuoteChars(_)
StripQuoteChars(s) ==
    IF s = "" THEN ""
    ELSE IF Head(s) = "\"" THEN StripQuoteChars(Tail(s))
    ELSE IF SubSeq(s, Len(s), Len(s)) = "\""
         THEN StripQuoteChars(SubSeq(s, 1, Len(s) - 1))
    ELSE s

\* s.find(sub) + 1: the 1-based position of the first occurrence, 0 if none.
Find(s, sub) ==
    LET hits == {k \in 1..(Len(s) - Len(sub) + 1) : SubSeq(s, k, k + Len(sub) - 1) = sub}
    IN IF hits = {} THEN 0 ELSE CHOOSE k \in hits : \A m \in hits : k <= m

\* sub in s
Contains(s, sub) == Find(s, sub) # 0

\* s.split(sep, 1)[1], for s that contains sep
AfterFirst(s, sep) == Drop(s, Find(s, sep) + Len(sep) - 1)

\* s.replace(old, new): non-overlapping occurrences, left to right
RECURSIVE Replace(_, _, _)
Replace(s, old, new) ==
    LET k == Find(s, old)
    IN IF k = 0 THEN s
       ELSE SubSeq(s, 1, k - 1) \o new \o Replace(Drop(s, k + Len(old) - 1), old, new)

\* sep.join(ss)
RECURSIVE Join(_, _)
Join(ss, sep) ==
    IF ss = <<>> THEN ""
    ELSE IF Len(ss) = 1 THEN ss[1]
    ELSE ss[1] \o sep \o Join(Tail(ss), sep)

\* s.split(sep)
RECURSIVE Split(_, _)
Split(s, sep) ==
    LET k == Find(s, sep)
    IN IF k = 0 THEN <<s>>
       ELSE <<SubSeq(s, 1, k - 1)>> \o Split(Drop(s, k + Len(sep) - 1), sep)

\* " " * n
RECURSIVE Spaces(_)
Spaces(n) == IF n <= 0 THEN "" ELSE " " \o Spaces(n - 1)

\* len(s) - len(s.lstrip())
Indent(s) == Len(s) - Len(LStrip(s))

(***************************************************************************)
(* The input files the model reads.                                        *)
(***************************************************************************)
Fragments ==
    { <<"">>,
      <<"#c">>,
      <<"ssh_pwauth: false">>,
      <<"ssh_pwauth: true">>,
      <<"packages:", "  - git">>,
      <<"runcmd:", "  # c", "  - echo /home/ubuntu">>,
      <<"  - 'su - ubuntu'">>,
      <<"write_files:">>,
      <<"write_files:", "  - path: /home/ubuntu/a", "    content: |", "      hi">>,
      <<"", "      hi">>,
      <<"  - path: /b", "    owner: ubuntu:ubuntu", "    permissions: \"0600\"", "    content: |">>,
      <<"  - path: /sshd_config">>,
      \* a line of one U+000B, a content line, a line that starts with U+000B
      <<"", "      hi", "x">> }

RECURSIVE FragSeqs(_)
FragSeqs(n) ==
    IF n = 0 THEN {<<>>}
    ELSE LET r == FragSeqs(n - 1)
         IN r \cup {f \o ls : f \in Fragments, ls \in r}

\* The text of the file at the path given on the command line.
FileTexts == {Join(ls, "\n") : ls \in FragSeqs(MaxFrags)}

\* sys.argv: program name, then the path, then the optional user.
ArgvSet ==
    { <<"prog">>,
      <<"prog", "cloud-init.yaml">>,
      <<"prog", "cloud-init.yaml", "root">>,
      <<"prog", "cloud-init.yaml", "deploy">> }

(***************************************************************************)
(* parse_cloud_init: data.                                                 *)
(***************************************************************************)
\* content_indent = None
None == -1

\* A sections dict whose flag starts as false.
InitSectionsPwauthOff ==
    [packages |-> <<>>, write_files |-> <<>>, runcmd |-> <<>>, ssh_pwauth |-> FALSE]

\* The sections dict as constructed.
InitSections ==
    [packages |-> <<>>, write_files |-> <<>>, runcmd |-> <<>>, ssh_pwauth |-> TRUE]

\* The entry dict of a "- path:" line s (already stripped).
NewEntry(s) ==
    [path |-> Strip(AfterFirst(s, "path:")), owner |-> "root:root",
     permissions |-> "0644", content |-> ""]

\* No entry under construction.
NoEntry == [path |-> "", owner |-> "", permissions |-> "", content |-> ""]

\* lines[i] of the source (0-based cursor).
Line(k) == lines[k + 1]

AtEnd == i >= Len(lines)

\* sections["ssh_pwauth"] = "true" in line
SshPwauthValue(line) == Contains(line, "true")

\* The loop condition of the packages and runcmd blocks.
InBlock(l) == StartsWith(l, "  ") \/ Strip(l) = ""

\* lines[i] and not lines[i][0].isspace() and not s.startswith("#")
WfBreakCond(l) == l # "" /\ ~IsSpace(Head(l)) /\ ~StartsWith(Strip(l), "#")

\* if s == "" or s.startswith("#")
WfSkipCond(l) == Strip(l) = "" \/ StartsWith(Strip(l), "#")

\* A field loop that stops only at the next entry, not at a top-level line.
FieldBreakCondPathOnly(fl) == StartsWith(Strip(fl), "- path:")

\* The break test of the entry-field loop.
FieldBreakCond(fl) ==
    LET fs == Strip(fl)
    IN StartsWith(fs, "- path:")
       \/ (fl # "" /\ ~IsSpace(Head(fl)) /\ fs # "" /\ ~StartsWith(fs, "#"))

\* if content_indent is None and cs: content_indent = len(cl) - len(cl.lstrip())
DetectIndent(ci, cl) == IF ci = None /\ Strip(cl) # "" THEN Indent(cl) ELSE ci

\* Truthiness of content_indent.
Truthy(ci) == ci # None /\ ci # 0

\* content_indent and cl.startswith(" " * content_indent) and len(cl) > 0
IsContentLine(ci, cl) == Truthy(ci) /\ StartsWith(cl, Spaces(ci)) /\ Len(cl) > 0

\* A blank-line test without the look-ahead at the next line.
BlankContinuesAlways(ls, idx, ci) == Truthy(ci)

\* i + 1 < len(lines) and content_indent and lines[i + 1].startswith(" " * content_indent)
BlankContinues(ls, idx, ci) ==
    idx + 1 < Len(ls) /\ Truthy(ci) /\ StartsWith(ls[idx + 2], Spaces(ci))

\* The command of a runcmd item s (already stripped), quotes removed.
RunCommand(s) ==
    LET cmd == Drop(s, 2)
    IN IF StartsWith(cmd, "'") /\ EndsWith(cmd, "'")
       THEN SubSeq(cmd, 2, Len(cmd) - 1) ELSE cmd

(***************************************************************************)
(* The entry point, up to the call of parse_cloud_init.                    *)
(***************************************************************************)
Usage(a) == "Usage: " \o a[1] \o " cloud-init.yaml [user]"

Init ==
    /\ pc = "start"
    /\ argv \in ArgvSet
    /\ user = ""
    /\ lines = <<>>
    /\ i = 0
    /\ sections = InitSections
    /\ entry = NoEntry
    /\ content_lines = <<>>
    /\ content_indent = None
    /\ who = <<>>
    /\ out = <<>>
    /\ stdout = ""
    /\ stderr = ""
    /\ exitCode = 0

\* len(sys.argv) < 2: usage on stderr, exit code 1.
MainUsage ==
    /\ pc = "start"
    /\ Len(argv) < 2
    /\ stderr' = Usage(argv) \o "\n"
    /\ exitCode' = 1
    /\ pc' = "exited"
    /\ UNCHANGED <<argv, user, lines, i, sections, entry, content_lines,
                   content_indent, who, out, stdout>>

\* path = sys.argv[1]; user = sys.argv[2] if given, else "ubuntu".
MainArgs ==
    /\ pc = "start"
    /\ Len(argv) >= 2
    /\ user' = IF Len(argv) > 2 THEN argv[3] ELSE "ubuntu"
    /\ pc' = "open"
    /\ UNCHANGED <<argv, lines, i, sections, entry, content_lines,
                   content_indent, who, out, stdout, stderr, exitCode>>

\* open(path) raises: the run dies with a traceback, nothing on stdout.
OpenFails ==
    /\ pc = "open"
    /\ stderr' = "Traceback"
    /\ exitCode' = 1
    /\ pc' = "crashed"
    /\ UNCHANGED <<argv, user, lines, i, sections, entry, content_lines,
                   content_indent, who, out, stdout>>

\* text = f.read(); lines = text.split("\n"); sections = {...}; i = 0
OpenReads ==
    /\ pc = "open"
    /\ \E text \in FileTexts : lines' = Split(text, "\n")
    /\ sections' = InitSections
    /\ i' = 0
    /\ pc' = "top"
    /\ UNCHANGED <<argv, user, entry, content_lines, content_indent, who,
                   out, stdout, stderr, exitCode>>

(***************************************************************************)
(* parse_cloud_init: one action per loop iteration or loop exit.  who      *)
(* records, for every line the cursor has passed, the loop that passed it. *)
(***************************************************************************)
\* i += 1 inside the loop named by tag.
Advance(tag) == i' = i + 1 /\ who' = Append(who, tag)

Stay == i' = i /\ who' = who

\* while i < len(lines) fails at top level: return sections.
TopReturn ==
    /\ pc = "top"
    /\ AtEnd
    /\ pc' = "parsed"
    /\ Stay
    /\ UNCHANGED <<argv, user, lines, sections, entry, content_lines,
                   content_indent, out, stdout, stderr, exitCode>>

TopSshPwauth ==
    /\ pc = "top"
    /\ ~AtEnd
    /\ StartsWith(Line(i), "ssh_pwauth:")
    /\ sections' = [sections EXCEPT !.ssh_pwauth = SshPwauthValue(Line(i))]
    /\ Advance("top")
    /\ pc' = "top"
    /\ UNCHANGED <<argv, user, lines, entry, content_lines, content_indent,
                   out, stdout, stderr, exitCode>>

\* A packages branch that enters the block without stepping over the marker.
TopPackagesNoStep ==
    /\ pc = "top"
    /\ ~AtEnd
    /\ ~StartsWith(Line(i), "ssh_pwauth:")
    /\ Line(i) = "packages:"
    /\ Stay
    /\ pc' = "pkg"
    /\ UNCHANGED <<argv, user, lines, sections, entry, content_lines,
                   content_indent, out, stdout, stderr, exitCode>>

\* line == "packages:": step over the marker, enter the packages block.
TopPackages ==
    /\ pc = "top"
    /\ ~AtEnd
    /\ ~StartsWith(Line(i), "ssh_pwauth:")
    /\ Line(i) = "packages:"
    /\ Advance("top")
    /\ pc' = "pkg"
    /\ UNCHANGED <<argv, user, lines, sections, entry, content_lines,
                   content_indent, out, stdout, stderr, exitCode>>

\* line == "write_files:"
TopWriteFiles ==
    /\ pc = "top"
    /\ ~AtEnd
    /\ ~StartsWith(Line(i), "ssh_pwauth:")
    /\ Line(i) = "write_files:"
    /\ Advance("top")
    /\ pc' = "wf"
    /\ UNCHANGED <<argv, user, lines, sections, entry, content_lines,
                   content_indent, out, stdout, stderr, exitCode>>

\* line == "runcmd:"
TopRuncmd ==
    /\ pc = "top"
    /\ ~AtEnd
    /\ ~StartsWith(Line(i), "ssh_pwauth:")
    /\ Line(i) = "runcmd:"
    /\ Advance("top")
    /\ pc' = "runcmd"
    /\ UNCHANGED <<argv, user, lines, sections, entry, content_lines,
                   content_indent, out, stdout, stderr, exitCode>>

\* Any other top-level line is skipped.
TopSkip ==
    /\ pc = "top"
    /\ ~AtEnd
    /\ ~StartsWith(Line(i), "ssh_pwauth:")
    /\ Line(i) \notin {"packages:", "write_files:", "runcmd:"}
    /\ Advance("top")
    /\ pc' = "top"
    /\ UNCHANGED <<argv, user, lines, sections, entry, content_lines,
                   content_indent, out, stdout, stderr, exitCode>>

\* One line of the packages block.
PkgLine ==
    /\ pc = "pkg"
    /\ ~AtEnd
    /\ InBlock(Line(i))
    /\ LET s == Strip(Line(i))
       IN sections' = IF StartsWith(s, "- ")
                      THEN [sections EXCEPT !.packages = Append(@, Strip(Drop(s, 2)))]
                      ELSE sections
    /\ Advance("pkg")
    /\ pc' = "pkg"
    /\ UNCHANGED <<argv, user, lines, entry, content_lines, content_indent,
                   out, stdout, stderr, exitCode>>

PkgExit ==
    /\ pc = "pkg"
    /\ IF AtEnd THEN TRUE ELSE ~InBlock(Line(i))
    /\ pc' = "top"
    /\ Stay
    /\ UNCHANGED <<argv, user, lines, sections, entry, content_lines,
                   content_indent, out, stdout, stderr, exitCode>>

\* The write_files loop ends: end of input or a top-level line.
WfExit ==
    /\ pc = "wf"
    /\ IF AtEnd THEN TRUE ELSE WfBreakCond(Line(i))
    /\ pc' = "top"
    /\ Stay
    /\ UNCHANGED <<argv, user, lines, sections, entry, content_lines,
                   content_indent, out, stdout, stderr, exitCode>>

\* Blank and comment lines between entries.
WfSkip ==
    /\ pc = "wf"
    /\ ~AtEnd
    /\ ~WfBreakCond(Line(i))
    /\ WfSkipCond(Line(i))
    /\ Advance("wf")
    /\ pc' = "wf"
    /\ UNCHANGED <<argv, user, lines, sections, entry, content_lines,
                   content_indent, out, stdout, stderr, exitCode>>

\* "- path:" starts an entry.
WfEntry ==
    /\ pc = "wf"
    /\ ~AtEnd
    /\ ~WfBreakCond(Line(i))
    /\ ~WfSkipCond(Line(i))
    /\ StartsWith(Strip(Line(i)), "- path:")
    /\ entry' = NewEntry(Strip(Line(i)))
    /\ Advance("wf")
    /\ pc' = "field"
    /\ UNCHANGED <<argv, user, lines, sections, content_lines, content_indent,
                   out, stdout, stderr, exitCode>>

\* Any other line of the write_files block.
WfOther ==
    /\ pc = "wf"
    /\ ~AtEnd
    /\ ~WfBreakCond(Line(i))
    /\ ~WfSkipCond(Line(i))
    /\ ~StartsWith(Strip(Line(i)), "- path:")
    /\ Advance("wf")
    /\ pc' = "wf"
    /\ UNCHANGED <<argv, user, lines, sections, entry, content_lines,
                   content_indent, out, stdout, stderr, exitCode>>

\* The field loop ends; sections["write_files"].append(entry).
FieldExit ==
    /\ pc = "field"
    /\ IF AtEnd THEN TRUE ELSE FieldBreakCond(Line(i))
    /\ sections' = [sections EXCEPT !.write_files = Append(@, entry)]
    /\ entry' = NoEntry
    /\ pc' = "wf"
    /\ Stay
    /\ UNCHANGED <<argv, user, lines, content_lines, content_indent,
                   out, stdout, stderr, exitCode>>

FieldOwner ==
    /\ pc = "field"
    /\ ~AtEnd
    /\ ~FieldBreakCond(Line(i))
    /\ StartsWith(Strip(Line(i)), "owner:")
    /\ entry' = [entry EXCEPT !.owner = Strip(AfterFirst(Strip(Line(i)), "owner:"))]
    /\ Advance("field")
    /\ pc' = "field"
    /\ UNCHANGED <<argv, user, lines, sections, content_lines, content_indent,
                   out, stdout, stderr, exitCode>>

FieldPermissions ==
    /\ pc = "field"
    /\ ~AtEnd
    /\ ~FieldBreakCond(Line(i))
    /\ ~StartsWith(Strip(Line(i)), "owner:")
    /\ StartsWith(Strip(Line(i)), "permissions:")
    /\ entry' = [entry EXCEPT !.permissions =
                    StripQuoteChars(Strip(AfterFirst(Strip(Line(i)), "permissions:")))]
    /\ Advance("field")
    /\ pc' = "field"
    /\ UNCHANGED <<argv, user, lines, sections, content_lines, content_indent,
                   out, stdout, stderr, exitCode>>

\* "content:" opens the block literal.
FieldContent ==
    /\ pc = "field"
    /\ ~AtEnd
    /\ ~FieldBreakCond(Line(i))
    /\ ~StartsWith(Strip(Line(i)), "owner:")
    /\ ~StartsWith(Strip(Line(i)), "permissions:")
    /\ StartsWith(Strip(Line(i)), "content:")
    /\ content_lines' = <<>>
    /\ content_indent' = None
    /\ Advance("field")
    /\ pc' = "content"
    /\ UNCHANGED <<argv, user, lines, sections, entry, out, stdout, stderr, exitCode>>

FieldOther ==
    /\ pc = "field"
    /\ ~AtEnd
    /\ ~FieldBreakCond(Line(i))
    /\ ~StartsWith(Strip(Line(i)), "owner:")
    /\ ~StartsWith(Strip(Line(i)), "permissions:")
    /\ ~StartsWith(Strip(Line(i)), "content:")
    /\ Advance("field")
    /\ pc' = "field"
    /\ UNCHANGED <<argv, user, lines, sections, entry, content_lines,
                   content_indent, out, stdout, stderr, exitCode>>

\* A line with the block's indentation.
ContentLine ==
    /\ pc = "content"
    /\ ~AtEnd
    /\ LET ci == DetectIndent(content_indent, Line(i))
       IN /\ IsContentLine(ci, Line(i))
          /\ content_lines' = Append(content_lines, Drop(Line(i), ci))
          /\ content_indent' = ci
    /\ Advance("content")
    /\ pc' = "content"
    /\ UNCHANGED <<argv, user, lines, sections, entry, out, stdout, stderr, exitCode>>

\* A blank line after which the block continues.
ContentBlank ==
    /\ pc = "content"
    /\ ~AtEnd
    /\ LET ci == DetectIndent(content_indent, Line(i))
       IN /\ ~IsContentLine(ci, Line(i))
          /\ Strip(Line(i)) = ""
          /\ BlankContinues(lines, i, ci)
          /\ content_indent' = ci
    /\ content_lines' = Append(content_lines, "")
    /\ Advance("content")
    /\ pc' = "content"
    /\ UNCHANGED <<argv, user, lines, sections, entry, out, stdout, stderr, exitCode>>

\* The block ends; entry["content"] = "\n".join(content_lines).rstrip()
ContentExit ==
    /\ pc = "content"
    /\ IF AtEnd THEN TRUE
       ELSE LET ci == DetectIndent(content_indent, Line(i))
            IN /\ ~IsContentLine(ci, Line(i))
               /\ ~(Strip(Line(i)) = "" /\ BlankContinues(lines, i, ci))
    /\ entry' = [entry EXCEPT !.content = RStrip(Join(content_lines, "\n"))]
    /\ content_lines' = <<>>
    /\ content_indent' = None
    /\ pc' = "field"
    /\ Stay
    /\ UNCHANGED <<argv, user, lines, sections, out, stdout, stderr, exitCode>>

\* A "# " comment line of the runcmd block.
RunComment ==
    /\ pc = "runcmd"
    /\ ~AtEnd
    /\ InBlock(Line(i))
    /\ StartsWith(Strip(Line(i)), "# ")
    /\ Advance("runcmd")
    /\ pc' = "runcmd"
    /\ UNCHANGED <<argv, user, lines, sections, entry, content_lines,
                   content_indent, out, stdout, stderr, exitCode>>

\* Any other line of the runcmd block.
RunLine ==
    /\ pc = "runcmd"
    /\ ~AtEnd
    /\ InBlock(Line(i))
    /\ ~StartsWith(Strip(Line(i)), "# ")
    /\ LET s == Strip(Line(i))
       IN sections' = IF StartsWith(s, "- ")
                      THEN [sections EXCEPT !.runcmd = Append(@, RunCommand(s))]
                      ELSE sections
    /\ Advance("runcmd")
    /\ pc' = "runcmd"
    /\ UNCHANGED <<argv, user, lines, entry, content_lines, content_indent,
                   out, stdout, stderr, exitCode>>

RunExit ==
    /\ pc = "runcmd"
    /\ IF AtEnd THEN TRUE ELSE ~InBlock(Line(i))
    /\ pc' = "top"
    /\ Stay
    /\ UNCHANGED <<argv, user, lines, sections, entry, content_lines,
                   content_indent, out, stdout, stderr, exitCode>>

(***************************************************************************)
(* generate_bash: one action per part of the script, then the print.       *)
(***************************************************************************)
\* home = f"/home/{user}" if user != "root" else "/root"
Home(u) == IF u # "root" THEN "/home/" \o u ELSE "/root"

Header == <<"#!/bin/bash", "set -x", "export DEBIAN_FRONTEND=noninteractive", "">>

PackagesBlock(pkgs) ==
    IF pkgs # <<>>
    THEN <<"# System packages", "apt-get update -y", "apt-get upgrade -y",
           "apt-get install -y " \o Join(pkgs, " "), "">>
    ELSE <<>>

\* A write_files loop without the sshd_config test.
SkipEntryNever(path) == FALSE

\* if "sshd_config" in path: continue
SkipEntry(path) == Contains(path, "sshd_config")

\* A path rewrite without the user test and with a shortened needle.
RewritePathAlways(u, path) == Replace(path, "/home", Home(u))

RewritePath(u, path) ==
    IF u # "ubuntu" THEN Replace(path, "/home/ubuntu", Home(u)) ELSE path

RewriteOwner(u, owner) ==
    IF u # "ubuntu" THEN Replace(owner, "ubuntu", u) ELSE owner

RewriteContent(u, content) ==
    IF u # "ubuntu" THEN Replace(content, "/home/ubuntu", Home(u)) ELSE content

\* "/".join(path.split("/")[:-1])
Parent(path) ==
    LET parts == Split(path, "/")
    IN Join(SubSeq(parts, 1, Len(parts) - 1), "/")

\* The lines one write_files entry appends to out.
FileBlock(u, e) ==
    IF SkipEntry(e.path) THEN <<>>
    ELSE LET path == RewritePath(u, e.path)
             owner == RewriteOwner(u, e.owner)
             content == RewriteContent(u, e.content)
             parent == Parent(path)
         IN (IF parent # "" THEN <<"mkdir -p " \o parent>> ELSE <<>>)
            \o <<"cat > " \o path \o " << 'FILEEOF'",
                 content,
                 "FILEEOF",
                 "chmod " \o e.permissions \o " " \o path,
                 "chown " \o owner \o " " \o path,
                 "">>

\* for entry in sections["write_files"]: ...
RECURSIVE FileBlocks(_, _)
FileBlocks(u, es) ==
    IF es = <<>> THEN <<>> ELSE FileBlock(u, Head(es)) \o FileBlocks(u, Tail(es))

SshBlock(pwauth) ==
    IF ~pwauth
    THEN <<"# SSH hardening",
           "cat > /etc/ssh/sshd_config.d/99-hardening.conf << 'SSHCONF'",
           "PasswordAuthentication no",
           "KbdInteractiveAuthentication no",
           "PubkeyAuthentication yes",
           "PermitRootLogin prohibit-password",
           "SSHCONF",
           "">>
    ELSE <<>>

RewriteCommand(u, cmd) ==
    IF u # "ubuntu"
    THEN Replace(
           Replace(
             Replace(
               Replace(
                 Replace(cmd, "ubuntu:ubuntu", u \o ":" \o u),
                 "/home/ubuntu", Home(u)),
               "chsh -s /usr/bin/zsh ubuntu", "chsh -s /usr/bin/zsh " \o u),
             "chown -R ubuntu:ubuntu", "chown -R " \o u \o ":" \o u),
           "su - ubuntu", "su - " \o u)
    ELSE cmd

RuncmdBlock(u, cmds) ==
    IF cmds # <<>>
    THEN <<"# Run commands">> \o [k \in 1..Len(cmds) |-> RewriteCommand(u, cmds[k])] \o <<"">>
    ELSE <<>>

\* An order that emits the SSH block before the file blocks.
NextPhaseSshFirst(p) ==
    CASE p = "gen_header" -> "gen_packages"
      [] p = "gen_packages" -> "gen_ssh"
      [] p = "gen_ssh" -> "gen_files"
      [] p = "gen_files" -> "gen_runcmd"
      [] p = "gen_runcmd" -> "print"

\* The order of the parts in generate_bash, and the print that follows.
NextPhase(p) ==
    CASE p = "gen_header" -> "gen_packages"
      [] p = "gen_packages" -> "gen_files"
      [] p = "gen_files" -> "gen_ssh"
      [] p = "gen_ssh" -> "gen_runcmd"
      [] p = "gen_runcmd" -> "print"

\* A generator that prints the header as soon as it is built.
GenHeaderPrints ==
    /\ pc = "parsed"
    /\ out' = Header
    /\ stdout' = Join(Header, "\n") \o "\n"
    /\ pc' = NextPhase("gen_header")
    /\ UNCHANGED <<argv, user, lines, i, sections, entry, content_lines,
                   content_indent, who, stderr, exitCode>>

\* parse_cloud_init has returned; generate_bash starts with the header.
GenHeader ==
    /\ pc = "parsed"
    /\ out' = Header
    /\ pc' = NextPhase("gen_header")
    /\ UNCHANGED <<argv, user, lines, i, sections, entry, content_lines,
                   content_indent, who, stdout, stderr, exitCode>>

GenPackages ==
    /\ pc = "gen_packages"
    /\ out' = out \o PackagesBlock(sections.packages)
    /\ pc' = NextPhase("gen_packages")
    /\ UNCHANGED <<argv, user, lines, i, sections, entry, content_lines,
                   content_indent, who, stdout, stderr, exitCode>>

GenFiles ==
    /\ pc = "gen_files"
    /\ out' = out \o FileBlocks(user, sections.write_files)
    /\ pc' = NextPhase("gen_files")
    /\ UNCHANGED <<argv, user, lines, i, sections, entry, content_lines,
                   content_indent, who, stdout, stderr, exitCode>>

GenSsh ==
    /\ pc = "gen_ssh"
    /\ out' = out \o SshBlock(sections.ssh_pwauth)
    /\ pc' = NextPhase("gen_ssh")
    /\ UNCHANGED <<argv, user, lines, i, sections, entry, content_lines,
                   content_indent, who, stdout, stderr, exitCode>>

GenRuncmd ==
    /\ pc = "gen_runcmd"
    /\ out' = out \o RuncmdBlock(user, sections.runcmd)
    /\ pc' = NextPhase("gen_runcmd")
    /\ UNCHANGED <<argv, user, lines, i, sections, entry, content_lines,
                   content_indent, who, stdout, stderr, exitCode>>

\* print(generate_bash(sections, user))
PrintScript ==
    /\ pc = "print"
    /\ stdout' = Join(out, "\n") \o "\n"
    /\ pc' = "done"
    /\ UNCHANGED <<argv, user, lines, i, sections, entry, content_lines,
                   content_indent, who, out, stderr, exitCode>>

Next ==
    \/ MainUsage \/ MainArgs \/ OpenFails \/ OpenReads
    \/ TopReturn \/ TopSshPwauth \/ TopPackages \/ TopWriteFiles \/ TopRuncmd \/ TopSkip
    \/ PkgLine \/ PkgExit
    \/ WfExit \/ WfSkip \/ WfEntry \/ WfOther
    \/ FieldExit \/ FieldOwner \/ FieldPermissions \/ FieldContent \/ FieldOther
    \/ ContentLine \/ ContentBlank \/ ContentExit
    \/ RunComment \/ RunLine \/ RunExit
    \/ GenHeader \/ GenPackages \/ GenFiles \/ GenSsh \/ GenRuncmd \/ PrintScript

Spec == Init /\ [][Next]_vars

(***************************************************************************)
(* Vocabulary of the properties.                                           *)
(***************************************************************************)
ParsePcs == {"top", "pkg", "wf", "field", "content", "runcmd"}

AfterParse == {"parsed", "gen_packages", "gen_files", "gen_ssh", "gen_runcmd", "print", "done"}

\* Nesting depth of the loop a position is in.
Depth(p) ==
    CASE p = "top" -> 1
      [] p \in {"pkg", "wf", "runcmd"} -> 2
      [] p = "field" -> 3
      [] p = "content" -> 4
      [] OTHER -> 0

\* A non-blank, non-comment line with zero leading whitespace.
Significant(l) == l # "" /\ ~IsSpace(Head(l)) /\ ~StartsWith(Strip(l), "#")

Range(f) == {f[x] : x \in DOMAIN f}

\* The first line (1-based) of the run of content-loop lines that ends at line k.
RunStart(k) ==
    CHOOSE b \in 1..k :
        /\ \A n \in b..k : who[n] = "content"
        /\ b = 1 \/ who[b - 1] # "content"

\* The content loop has just ended after taking at least one line.
JustLeftContent == pc = "field" /\ who # <<>> /\ who[Len(who)] = "content"

\* Lines b..e joined and right-stripped: a line that starts with ind spaces
\* without them, any other (blank) line as an empty line.
LiteralText(b, e, ind) ==
    RStrip(Join([n \in 1..(e - b + 1) |->
                    IF StartsWith(lines[b + n - 1], Spaces(ind))
                    THEN Drop(lines[b + n - 1], ind) ELSE ""], "\n"))

(***************************************************************************)
(* C9 *)
(***************************************************************************)
\* One step of the scan: the cursor moves forward by exactly one line, or it
\* stays and the step leaves the loop it is in for the enclosing one.
ScanStep ==
    pc \in ParsePcs =>
        \/ i' = i + 1 /\ pc' \in ParsePcs
        \/ i' = i /\ Depth(pc') = Depth(pc) - 1

\* C9: parse_cloud_init is a total forward-only scan: the cursor never goes
\* back, every iteration of every loop moves it by one line or leaves the
\* loop (so the pair of lines left and loop depth decreases at every step and
\* the scan ends), it never passes the end of the input, and the parser returns
\* with the cursor on the number of lines.
C9_TotalForwardScan ==
    /\ [](i <= Len(lines) /\ Len(who) = i)
    /\ [](pc \in AfterParse => i = Len(lines))
    /\ [][ScanStep]_vars

\* A parse that ran every nested loop has returned.
C9_Witness ==
    /\ pc = "parsed"
    /\ i = Len(lines)
    /\ {"top", "pkg", "wf", "field", "content", "runcmd"} \subseteq Range(who)

(***************************************************************************)
(* C10 *)
(***************************************************************************)
\* The loop a marker line opens.
BlockOf(l) ==
    CASE l = "packages:" -> "pkg"
      [] l = "write_files:" -> "wf"
      [] l = "runcmd:" -> "runcmd"
      [] OTHER -> "top"

\* The line after a marker belongs to the marker's block.
BlockAccepts(marker, l) ==
    IF marker = "write_files:" THEN ~WfBreakCond(l) ELSE InBlock(l)

\* The ssh_pwauth lines the cursor has passed.
SshLinesPassed == {k \in 1..Len(who) : StartsWith(lines[k], "ssh_pwauth:")}

\* C10: every non-blank, non-comment line with zero leading whitespace is
\* passed by the top-level scan and by no section loop, so a marker line is
\* always recognised: the line after it is taken by the marker's own loop, and
\* the flag is the value of the last ssh_pwauth line passed.  Stated of the
\* line the cursor passed last, in every state: the lines passed earlier were
\* the last one in an earlier state.
C10_TopLevelLinesReachTopScan ==
    LET k == Len(who)
    IN /\ (k >= 1 /\ Significant(lines[k])) => who[k] = "top"
       /\ (k >= 2 /\ lines[k - 1] \in {"packages:", "write_files:", "runcmd:"}
              /\ BlockAccepts(lines[k - 1], lines[k]))
             => who[k] = BlockOf(lines[k - 1])
       /\ SshLinesPassed # {}
             => \E n \in SshLinesPassed :
                   /\ \A m \in SshLinesPassed : m <= n
                   /\ sections.ssh_pwauth = SshPwauthValue(lines[n])

\* A runcmd marker directly after a content block was recognised and parsed.
C10_Witness ==
    /\ pc = "parsed"
    /\ \E k \in 2..(Len(lines) - 1) :
          /\ who[k - 1] = "content"
          /\ lines[k] = "runcmd:"
          /\ who[k + 1] = "runcmd"
    /\ sections.runcmd # <<>>

(***************************************************************************)
(* C5 *)
(***************************************************************************)
\* The established indentation of the content block that line k is in.
BlockIndent(k) == Indent(lines[RunStart(k)])

\* Line k is blank (empty or of whitespace short of the block's indentation)
\* and follows a line of a content block.
BlankInBlock(k) ==
    /\ k >= 2
    /\ who[k - 1] = "content"
    /\ Strip(lines[k]) = ""
    /\ ~StartsWith(lines[k], Spaces(BlockIndent(k - 1)))

\* C5: inside a content block with established indentation, a blank line is
\* kept (as an empty line of the content) exactly when the next line exists and
\* starts with the block's indentation; otherwise it ends the block and is not
\* part of the content.  The first part is stated of the line the cursor
\* passed last, in every state.
C5_BlankLineRule ==
    /\ LET k == Len(who)
       IN BlankInBlock(k) =>
             (who[k] = "content"
                <=> (k + 1 <= Len(lines)
                       /\ StartsWith(lines[k + 1], Spaces(BlockIndent(k - 1)))))
    /\ JustLeftContent =>
          entry.content =
             LiteralText(RunStart(Len(who)), Len(who), BlockIndent(Len(who)))

\* A block whose parsed content holds a kept empty line, and a later empty
\* line that ended a block.
C5_Witness ==
    /\ JustLeftContent
    /\ entry.content = "hi\n\nhi"
    /\ i < Len(lines) /\ Line(i) = ""

(***************************************************************************)
(* C6 *)
(***************************************************************************)
\* The last line of the block literal that starts at b: the last non-blank
\* line reached from b through blank lines and lines with the indentation.
LiteralEnd(b) ==
    LET ind == Indent(lines[b])
        ok(e) == /\ Strip(lines[e]) # ""
                 /\ \A n \in b..e : Strip(lines[n]) = "" \/ StartsWith(lines[n], Spaces(ind))
        ends == {e \in b..Len(lines) : ok(e)}
    IN CHOOSE e \in ends : \A m \in ends : m <= e

\* C6: the parsed content of an entry is its whole block literal: every blank
\* line between two lines of the literal, runs of several blank lines
\* included, and the lines after them, are in the content, and the content
\* does not end with a whitespace-only line.
C6_InternalBlankLinesKept ==
    JustLeftContent =>
        LET b == RunStart(Len(who))
        IN entry.content = LiteralText(b, LiteralEnd(b), Indent(lines[b]))

(***************************************************************************)
(* C8 *)
(***************************************************************************)
\* Line k lies in a write_files block: a marker precedes it with no top-level
\* line in between.
WfMarkerOf(k) ==
    {m \in 1..(k - 1) :
        /\ lines[m] = "write_files:"
        /\ \A n \in (m + 1)..k : ~Significant(lines[n])}

IsPathLine(k) == StartsWith(Strip(lines[k]), "- path:")

\* Line k is a "- path:" line at the list-item indentation of its block.
EntryLine(k) ==
    /\ WfMarkerOf(k) # {}
    /\ IsPathLine(k)
    /\ LET m == CHOOSE x \in WfMarkerOf(k) : TRUE
           first == CHOOSE f \in (m + 1)..k :
                       IsPathLine(f) /\ \A g \in (m + 1)..(f - 1) : ~IsPathLine(g)
       IN Indent(lines[k]) = Indent(lines[first])

EntryLines == {k \in 1..Len(lines) : EntryLine(k)}

\* The k-th smallest element of a set of numbers.
RECURSIVE Nth(_, _)
Nth(S, k) ==
    LET least == CHOOSE x \in S : \A y \in S : x <= y
    IN IF k = 1 THEN least ELSE Nth(S \ {least}, k - 1)

\* C8: every "- path:" line at list-item indentation inside a write_files
\* block begins a new entry: the parsed list has one entry per such line, with
\* the paths of those lines in order.
C8_EveryPathLineStartsEntry ==
    pc = "parsed" =>
        /\ Len(sections.write_files) = Cardinality(EntryLines)
        /\ \A k \in 1..Len(sections.write_files) :
              sections.write_files[k].path =
                 Strip(AfterFirst(Strip(lines[Nth(EntryLines, k)]), "path:"))

(***************************************************************************)
(* Vocabulary of the properties of the generated script.                   *)
(***************************************************************************)
\* generate_bash has returned and its result is printed.
Generated == pc = "done"

IsCatLine(l) == StartsWith(l, "cat > ") /\ EndsWith(l, " << 'FILEEOF'")

\* The part of the script a line marks: 0 header, 1 packages, 2 file blocks,
\* 3 SSH hardening, 4 runcmd; -1 for a line that marks no part (a blank line,
\* file content, a command).
Rank(l) ==
    CASE l \in {"#!/bin/bash", "set -x", "export DEBIAN_FRONTEND=noninteractive"} -> 0
      [] l \in {"# System packages", "apt-get update -y", "apt-get upgrade -y"} -> 1
      [] StartsWith(l, "apt-get install -y ") -> 1
      [] StartsWith(l, "mkdir -p ") \/ IsCatLine(l) \/ l = "FILEEOF" -> 2
      [] StartsWith(l, "chmod ") \/ StartsWith(l, "chown ") -> 2
      [] l \in {"# SSH hardening",
                "cat > /etc/ssh/sshd_config.d/99-hardening.conf << 'SSHCONF'",
                "PasswordAuthentication no", "KbdInteractiveAuthentication no",
                "PubkeyAuthentication yes", "PermitRootLogin prohibit-password",
                "SSHCONF"} -> 3
      [] l = "# Run commands" -> 4
      [] OTHER -> -1

Ranks == [k \in 1..Len(out) |-> Rank(out[k])]

\* The ranks of the marking lines, in script order.
MarkRanks == SelectSeq(Ranks, LAMBDA r : r >= 0)

\* The entries of the parsed list that are not sshd_config entries.
KeptEntries == SelectSeq(sections.write_files, LAMBDA e : ~Contains(e.path, "sshd_config"))

\* The positions of the heredoc lines of the file blocks in out.
CatPositions == {k \in 1..Len(out) : IsCatLine(out[k])}

(***************************************************************************)
(* C1 *)
(***************************************************************************)
\* C1: the script starts with the three header lines and a blank line; after
\* them the package lines, the file blocks, the SSH block and the runcmd
\* commands come in this order whatever the order of the sections in the
\* input; the package lines, the SSH block and the commands are there exactly
\* when packages is non-empty, ssh_pwauth is false and runcmd is non-empty, and
\* the commands end the script.
C1_FixedEmissionOrder ==
    Generated =>
        LET R == Ranks
            M == MarkRanks
        IN /\ SubSeq(out, 1, 4) = Header
           /\ SubSeq(M, 1, 3) = <<0, 0, 0>>
           /\ \A k \in 1..(Len(M) - 1) : M[k] <= M[k + 1]
           /\ \A k \in 4..Len(M) : M[k] # 0
           /\ (1 \in Range(M)) <=> sections.packages # <<>>
           /\ (2 \in Range(M)) <=> KeptEntries # <<>>
           /\ (3 \in Range(M)) <=> ~sections.ssh_pwauth
           /\ (4 \in Range(M)) <=> sections.runcmd # <<>>
           /\ \A k \in 1..Len(out) :
                 R[k] = 4 =>
                    /\ Len(out) = k + Len(sections.runcmd) + 1
                    /\ \A c \in 1..Len(sections.runcmd) :
                          out[k + c] = RewriteCommand(user, sections.runcmd[c])

\* A script with package lines, a file block and the SSH block, generated from
\* an input that names them in the opposite order.
C1_Witness ==
    /\ pc = "done"
    /\ {1, 2, 3} \subseteq Range(MarkRanks)
    /\ \E a, b, c \in 1..Len(lines) :
          /\ a < b /\ b < c
          /\ lines[a] = "ssh_pwauth: false"
          /\ lines[b] = "write_files:"
          /\ lines[c] = "packages:"

(***************************************************************************)
(* C2 *)
(***************************************************************************)
\* The heredoc of the hardening block with its four directives.
HardeningBlock ==
    <<"cat > /etc/ssh/sshd_config.d/99-hardening.conf << 'SSHCONF'",
      "PasswordAuthentication no",
      "KbdInteractiveAuthentication no",
      "PubkeyAuthentication yes",
      "PermitRootLogin prohibit-password",
      "SSHCONF">>

HardeningCount ==
    Cardinality({k \in 1..(Len(out) - 5) : SubSeq(out, k, k + 5) = HardeningBlock})

\* The flag the input asks for: true without an ssh_pwauth line, else whether
\* "true" occurs after the colon of the last such line.
InputPwauth ==
    LET K == {k \in 1..Len(lines) : StartsWith(lines[k], "ssh_pwauth:")}
    IN IF K = {} THEN TRUE
       ELSE LET last == CHOOSE k \in K : \A m \in K : m <= k
            IN Contains(Drop(lines[last], Len("ssh_pwauth:")), "true")

\* C2: end to end, the hardening block is in the script exactly once when the
\* input sets ssh_pwauth to false, and not at all when it sets it to true or
\* has no ssh_pwauth line.
C2_HardeningBlockOnceIffPwauthFalse ==
    Generated => HardeningCount = (IF InputPwauth THEN 0 ELSE 1)

\* A script with the block, from an input whose last ssh_pwauth line says false
\* after an earlier one said true.
C2_Witness ==
    /\ pc = "done"
    /\ HardeningCount = 1
    /\ "ssh_pwauth: true" \in Range(lines)

(***************************************************************************)
(* C3 *)
(***************************************************************************)
\* C3: the file blocks of the script are, in order, the blocks of the entries
\* whose path does not contain "sshd_config": heredoc, content, end marker,
\* chmod and chown of each; an sshd_config entry leaves no heredoc, chmod or
\* chown line.
C3_FileBlocksAreKeptEntriesInOrder ==
    Generated =>
        /\ Cardinality(CatPositions) = Len(KeptEntries)
        /\ Len(SelectSeq(out, LAMBDA l : StartsWith(l, "chmod "))) = Len(KeptEntries)
        /\ Len(SelectSeq(out, LAMBDA l : StartsWith(l, "chown "))) = Len(KeptEntries)
        /\ \A j \in 1..Len(KeptEntries) :
              LET k == Nth(CatPositions, j)
                  e == KeptEntries[j]
                  path == RewritePath(user, e.path)
              IN /\ out[k] = "cat > " \o path \o " << 'FILEEOF'"
                 /\ out[k + 1] = RewriteContent(user, e.content)
                 /\ out[k + 2] = "FILEEOF"
                 /\ out[k + 3] = "chmod " \o e.permissions \o " " \o path
                 /\ out[k + 4] = "chown " \o RewriteOwner(user, e.owner) \o " " \o path

\* Two different kept entries around a skipped sshd_config entry.
C3_Witness ==
    /\ pc = "done"
    /\ Len(sections.write_files) = 3
    /\ Contains(sections.write_files[2].path, "sshd_config")
    /\ Len(KeptEntries) = 2
    /\ KeptEntries[1].path # KeptEntries[2].path

(***************************************************************************)
(* C4 *)
(***************************************************************************)
\* C4: for user "ubuntu" the script carries the parsed values unchanged: each
\* kept entry's path, content and owner, and each command, byte for byte.
C4_UbuntuNoRewrite ==
    (Generated /\ user = "ubuntu") =>
        /\ \A j \in 1..Len(KeptEntries) :
              LET k == Nth(CatPositions, j)
                  e == KeptEntries[j]
              IN /\ out[k] = "cat > " \o e.path \o " << 'FILEEOF'"
                 /\ out[k + 1] = e.content
                 /\ out[k + 3] = "chmod " \o e.permissions \o " " \o e.path
                 /\ out[k + 4] = "chown " \o e.owner \o " " \o e.path
        /\ sections.runcmd # <<>> =>
              SubSeq(out, Len(out) - Len(sections.runcmd), Len(out) - 1) = sections.runcmd

\* A script for ubuntu whose entries and commands mention ubuntu.
C4_Witness ==
    /\ pc = "done"
    /\ user = "ubuntu"
    /\ \E j \in 1..Len(KeptEntries) : Contains(KeptEntries[j].path, "/home/ubuntu")
    /\ \E j \in 1..Len(KeptEntries) : Contains(KeptEntries[j].owner, "ubuntu")
    /\ \E c \in 1..Len(sections.runcmd) : Contains(sections.runcmd[c], "ubuntu")

(***************************************************************************)
(* C7 *)
(***************************************************************************)
\* The script generate_bash returns for the parsed sections.
FullScript ==
    Header \o PackagesBlock(sections.packages) \o FileBlocks(user, sections.write_files)
        \o SshBlock(sections.ssh_pwauth) \o RuncmdBlock(user, sections.runcmd)

\* C7: standard output is empty until the run ends, and then holds the whole
\* script; a run without the path argument ends with the usage message on the
\* error stream and exit code 1, having read and generated nothing; a run
\* whose source cannot be read ends before any line is parsed or generated.
C7_AllOrNothingOutput ==
    /\ stdout # "" => (pc = "done" /\ stdout = Join(FullScript, "\n") \o "\n")
    /\ pc = "done" => (stdout # "" /\ exitCode = 0 /\ stderr = "")
    /\ (Len(argv) < 2 /\ pc # "start") =>
          /\ pc = "exited"
          /\ exitCode = 1
          /\ stderr = "Usage: " \o argv[1] \o " cloud-init.yaml [user]\n"
          /\ lines = <<>> /\ who = <<>> /\ out = <<>> /\ stdout = ""
    /\ pc = "crashed" =>
          /\ exitCode # 0
          /\ lines = <<>> /\ who = <<>> /\ out = <<>> /\ stdout = ""

\* A run that printed a whole script with all four parts after the header.
C7_Witness ==
    /\ pc = "done"
    /\ stdout = Join(out, "\n") \o "\n"
    /\ sections.packages # <<>> /\ KeptEntries # <<>> /\ sections.runcmd # <<>>

====
